---- MODULE Spec2Model ----
(***************************************************************************)
(* A model of the live-classroom streaming origin.                         *)
(*                                                                         *)
(*   server/index.js      the current server: room hub (socket.io          *)
(*                        handlers) and the RTMP publish handlers          *)
(*   transcoder.js        (src/unnamed/part_006) the FFmpeg supervisor     *)
(*                        used by server/index.js                          *)
(*   legacy server        (src/unnamed/part_010) the single-file server:   *)
(*                        the same room hub plus close-poll, typing and    *)
(*                        the delayed cleanup of the streams directory     *)
(*                                                                         *)
(* Every handler runs to completion on the node event loop, so a handler   *)
(* is one action.  Timers (setTimeout) and child-process events are        *)
(* separate actions that fire at any later time.                           *)
(***************************************************************************)
EXTENDS Integers, Sequences, FiniteSets, TLC

\* ------------------------------------------------------------------ bounds
NumConns == 2      \* socket.io connections (each has a fresh socket.id)
MaxPolls == 1      \* polls ever created (each has a fresh uuid)
MaxOptions == 2    \* options of a poll
MaxSpawns == 2     \* transcoder runs ever started
MaxMessages == 52  \* chat messages in the log of one room

SnapshotSize == 50 \* room.messages.slice(-50)

Conns == 1..NumConns

\* Stream keys are strings; they are kept as character sequences because the
\* cleanup matches file names by prefix.
K1 == <<"k", "1">>
K10 == <<"k", "1", "0">>
Keys == {K1, K10}
NoKey == <<>>

Roles == {"teacher", "student", "undef"}   \* the role field of a join payload
Durations == {0, 5}                        \* the duration field of create-poll

VARIABLES
  \* ---- room hub (server/index.js 46-192)
  rooms,        \* Map streamKey -> room
  sockData,     \* socket.data of every connection
  connOpen,     \* whether the connection is still connected
  ioRooms,      \* socket.io room membership: connection -> set of keys
  polls,        \* the poll objects ever created, by id
  pollTimers,   \* pending auto-close timers (poll ids)
  ballots,      \* history: which option each accepted vote was for
  teacherSet,   \* history: the policy a teacher last set per key
  \* ---- stream lifecycle (server/index.js 194-267, transcoder.js)
  activeStreams,    \* Map streamKey -> row
  activeProcesses,  \* transcoder.js: Map streamKey -> process entry
  procs,            \* every child process ever spawned, by pid
  killTimers,       \* pending 5 s force-kill timers
  playlistTimers,   \* pending 2 s master-playlist timers
  files,            \* the streams output directory
  \* ---- legacy server only (part_010)
  activeEncodings,  \* Map streamKey -> list of ffmpeg commands
  startEvents,      \* pending 'start' events of ffmpeg commands
  cleanupTimers,    \* pending 10 s cleanup timers
  \* ---- clients (socket.io transport, useSocket hook part_001)
  inbox,        \* per followed connection: events sent to it, not yet handled
  received,     \* history: the events its client has handled, in order
  typingUsers,  \* useSocket state typingUsers of its client
  sent,         \* history: how many events the hub has emitted
  \* ---- observation
  out,          \* the events the last handler emitted
  last          \* the handler that ran last

hubVars == <<rooms, sockData, connOpen, ioRooms, polls, pollTimers, ballots, teacherSet>>
streamVars == <<activeStreams, activeProcesses, procs, killTimers, playlistTimers>>
legacyVars == <<activeEncodings, startEvents, cleanupTimers>>
clientVars == <<inbox, received, typingUsers, sent>>
vars == <<hubVars, streamVars, legacyVars, clientVars, files, out, last>>

\* ------------------------------------------------------------ JS Map helpers
Has(m, k) == k \in DOMAIN m
Put(m, k, v) == [x \in (DOMAIN m) \cup {k} |-> IF x = k THEN v ELSE m[x]]
Del(m, k) == [x \in (DOMAIN m) \ {k} |-> m[x]]
EmptyMap == [x \in {} |-> 0]

Filter(s, Keep(_)) == SelectSeq(s, Keep)

RECURSIVE SumSeq(_)
SumSeq(s) == IF s = <<>> THEN 0 ELSE Head(s) + SumSeq(Tail(s))

\* ------------------------------------------------------------------- events
Ev(ev, to, room, poll) == [ev |-> ev, to |-> to, room |-> room, poll |-> poll]
Cmd(op, c, k) == [op |-> op, conn |-> c, key |-> k]

\* An event with the payload the claims look at.
EvWith(ev, to, room, payload) ==
  [ev |-> ev, to |-> to, room |-> room, poll |-> 0, payload |-> payload]

\* Who receives an event emitted by the handler of connection sender:
\*   socket.emit            -> the sender
\*   io.to(key).emit        -> every connected socket that joined key
\*   socket.to(key).emit    -> the same, except the sender
Recipients(event, sender) ==
  CASE event.to = "sender" -> {sender}
    [] event.to = "room" -> {c \in Conns : connOpen[c] /\ event.room \in ioRooms[c]}
    [] event.to = "others" ->
         {c \in Conns : connOpen[c] /\ event.room \in ioRooms[c]} \ {sender}

MaxSent == 6       \* events emitted while clients are followed

\* The events of a handler that go to connection d, stamped with their place
\* in the order of emission; to[i] holds the recipients of the i-th event.
RECURSIVE Stamped(_, _, _, _)
Stamped(events, n, d, to) ==
  IF events = <<>> THEN <<>>
  ELSE (IF d \in Head(to) THEN << [n |-> n + 1, e |-> Head(events)] >> ELSE <<>>)
         \o Stamped(Tail(events), n + 1, d, Tail(to))

\* Mutant of Enqueue: new packets are put in front of the waiting ones.
EnqueueAtFront(queue, packets) == packets \o queue

\* emit hands each packet to the connection's transport, which sends them in
\* the order they were handed over; nothing limits how many may wait.
Enqueue(queue, packets) == queue \o packets

\* Every emit of the handler that just ran, socket.join and the closing of a
\* socket taken into account, reaches the queues of its recipients.  The
\* queues of the connections whose client is followed are recorded.
Transport(sender) ==
  /\ DOMAIN inbox # {} => sent + Len(out') <= MaxSent
  /\ sent' = IF DOMAIN inbox = {} THEN sent ELSE sent + Len(out')
  /\ \E events \in {out'} :
       inbox' = [d \in DOMAIN inbox |->
                   Enqueue(inbox[d],
                           Stamped(events, sent, d,
                                   [i \in 1..Len(events) |->
                                      Recipients(events[i], sender)']))]
  /\ UNCHANGED <<received, typingUsers>>

\* ----------------------------------------------------------------- room hub
createRoom(streamKey) ==
  [ streamKey |-> streamKey,
    participants |-> EmptyMap,
    messages |-> <<>>,
    polls |-> <<>>,
    handRaises |-> <<>>,
    h265Enabled |-> FALSE ]

NoData == [streamKey |-> NoKey, role |-> "undef"]

\* role || 'student'
ParticipantRole(role) == IF role = "undef" THEN "student" ELSE role

\* The guard shared by the handlers:  if (!streamKey || !rooms.has(streamKey)) return
InRoom(c) == sockData[c].streamKey # NoKey /\ Has(rooms, sockData[c].streamKey)

\* Mutant of MayTeach: the role check is missing.
MayTeachNoRoleCheck(c) == InRoom(c)

\* role !== 'teacher' is part of the guard of the teacher-only handlers
MayTeach(c) == InRoom(c) /\ sockData[c].role = "teacher"

\* Mutant of LastMessages: the first 50 messages instead of the last 50.
FirstMessages(messages) ==
  IF Len(messages) > SnapshotSize THEN SubSeq(messages, 1, SnapshotSize) ELSE messages

\* room.messages.slice(-50)
LastMessages(messages) ==
  IF Len(messages) > SnapshotSize
  THEN SubSeq(messages, Len(messages) - SnapshotSize + 1, Len(messages))
  ELSE messages

\* Mutant of ActivePolls: closed polls are not filtered out.
AllPolls(room) == room.polls

\* room.polls.filter(p => p.status === 'active')
ActivePolls(room) == Filter(room.polls, LAMBDA id : polls[id].status = "active")

\* The payload of room-state.
RoomState(room) ==
  [ messages |-> LastMessages(room.messages),
    polls |-> ActivePolls(room),
    participants |-> room.participants,
    streamSettings |-> room.h265Enabled ]

JoinRoom(c, streamKey, role) ==
  /\ connOpen[c]
  /\ LET room0 == IF Has(rooms, streamKey) THEN rooms[streamKey] ELSE createRoom(streamKey)
         room1 == [room0 EXCEPT !.participants =
                     Put(@, c, [role |-> ParticipantRole(role), handRaised |-> FALSE])]
     IN /\ rooms' = Put(rooms, streamKey, room1)
        /\ out' = << EvWith("room-state", "sender", streamKey, RoomState(room1)),
                     EvWith("participant-joined", "others", streamKey,
                            [ participant |-> room1.participants[c],
                              totalCount |-> Cardinality(DOMAIN room1.participants) ]) >>
  /\ ioRooms' = [ioRooms EXCEPT ![c] = @ \cup {streamKey}]
  /\ sockData' = [sockData EXCEPT ![c] = [streamKey |-> streamKey, role |-> role]]
  /\ last' = Cmd("join-room", c, streamKey)
  /\ UNCHANGED <<connOpen, polls, pollTimers, ballots, teacherSet, streamVars,
                 legacyVars, files>>
  /\ Transport(c)

CreatePoll(c, nOptions, duration) ==
  /\ connOpen[c]
  /\ last' = Cmd("create-poll", c, sockData[c].streamKey)
  /\ IF MayTeach(c)
     THEN LET streamKey == sockData[c].streamKey
              id == Cardinality(DOMAIN polls) + 1
              poll == [ room |-> streamKey,
                        options |-> [i \in 1..nOptions |-> 0],
                        voters |-> {},
                        status |-> "active",
                        duration |-> duration ]
          IN /\ id <= MaxPolls
             /\ polls' = Put(polls, id, poll)
             /\ ballots' = Put(ballots, id, EmptyMap)
             /\ rooms' = [rooms EXCEPT ![streamKey].polls = Append(@, id)]
             /\ out' = << Ev("new-poll", "room", streamKey, id) >>
             /\ pollTimers' = IF duration # 0 THEN pollTimers \cup {id} ELSE pollTimers
     ELSE /\ out' = <<>>
          /\ UNCHANGED <<polls, ballots, rooms, pollTimers>>
  /\ UNCHANGED <<sockData, connOpen, ioRooms, teacherSet, streamVars, legacyVars, files>>
  /\ Transport(c)

\* Mutant of PollTimerFire: the callback emits but leaves the status alone.
PollTimerFireKeepsStatus(id) ==
  /\ id \in pollTimers
  /\ pollTimers' = pollTimers \ {id}
  /\ out' = << Ev("poll-closed", "room", polls[id].room, id) >>
  /\ last' = Cmd("poll-timer", 0, polls[id].room)
  /\ UNCHANGED <<rooms, sockData, connOpen, ioRooms, polls, ballots, teacherSet,
                 streamVars, legacyVars, files>>
  /\ Transport(0)

\* The callback of the auto-close timer: it holds the poll object and the
\* stream key of the room the poll was created in.
PollTimerFire(id) ==
  /\ id \in pollTimers
  /\ pollTimers' = pollTimers \ {id}
  /\ polls' = [polls EXCEPT ![id].status = "closed"]
  /\ out' = << Ev("poll-closed", "room", polls[id].room, id) >>
  /\ last' = Cmd("poll-timer", 0, polls[id].room)
  /\ UNCHANGED <<rooms, sockData, connOpen, ioRooms, ballots, teacherSet,
                 streamVars, legacyVars, files>>
  /\ Transport(0)

\* room.polls.find(p => p.id === pollId)
FindPoll(room, pollId) ==
  IF \E i \in 1..Len(room.polls) : room.polls[i] = pollId THEN pollId ELSE 0

\* Mutant of FindOption: an unknown option id falls back to the first option.
FindOptionOrFirst(poll, optionId) ==
  IF optionId \in DOMAIN poll.options THEN optionId ELSE 1

\* poll.options.find(o => o.id === optionId)
FindOption(poll, optionId) ==
  IF optionId \in DOMAIN poll.options THEN optionId ELSE 0

\* Mutant of VoteAccepted: the voters set is not consulted.
VoteAcceptedNoDedup(c, pollId, optionId) ==
  /\ InRoom(c)
  /\ FindPoll(rooms[sockData[c].streamKey], pollId) # 0
  /\ polls[pollId].status = "active"
  /\ FindOption(polls[pollId], optionId) # 0

\* Mutant of VoteAccepted: the poll's status is not consulted.
VoteAcceptedIgnoresStatus(c, pollId, optionId) ==
  /\ InRoom(c)
  /\ FindPoll(rooms[sockData[c].streamKey], pollId) # 0
  /\ c \notin polls[pollId].voters
  /\ FindOption(polls[pollId], optionId) # 0

VoteAccepted(c, pollId, optionId) ==
  /\ InRoom(c)
  /\ FindPoll(rooms[sockData[c].streamKey], pollId) # 0
  /\ polls[pollId].status = "active"
  /\ c \notin polls[pollId].voters
  /\ FindOption(polls[pollId], optionId) # 0

VotePoll(c, pollId, optionId) ==
  /\ connOpen[c]
  /\ last' = Cmd("vote-poll", c, sockData[c].streamKey)
  /\ IF VoteAccepted(c, pollId, optionId)
     THEN /\ polls' = [polls EXCEPT ![pollId].options[optionId] = @ + 1,
                                    ![pollId].voters = @ \cup {c}]
          /\ ballots' = [ballots EXCEPT ![pollId] = Put(@, c, optionId)]
          /\ out' = << Ev("poll-updated", "room", sockData[c].streamKey, pollId) >>
     ELSE /\ out' = <<>>
          /\ UNCHANGED <<polls, ballots>>
  /\ UNCHANGED <<rooms, sockData, connOpen, ioRooms, pollTimers, teacherSet,
                 streamVars, legacyVars, files>>
  /\ Transport(c)

UpdateStreamSettings(c, h265Enabled) ==
  /\ connOpen[c]
  /\ last' = Cmd("update-stream-settings", c, sockData[c].streamKey)
  /\ IF MayTeach(c)
     THEN /\ rooms' = [rooms EXCEPT ![sockData[c].streamKey].h265Enabled = h265Enabled]
          /\ teacherSet' = [teacherSet EXCEPT ![sockData[c].streamKey] = h265Enabled]
          /\ out' = << Ev("stream-settings-updated", "room", sockData[c].streamKey, 0) >>
     ELSE /\ out' = <<>>
          /\ UNCHANGED <<rooms, teacherSet>>
  /\ UNCHANGED <<sockData, connOpen, ioRooms, polls, pollTimers, ballots,
                 streamVars, legacyVars, files>>
  /\ Transport(c)

\* The room is dropped as soon as its participants map is empty.
RoomAfterLeave(room, c) ==
  [room EXCEPT !.participants = Del(@, c),
               !.handRaises = Filter(@, LAMBDA h : h # c)]

\* Mutant of DeleteRoomOnLeave: the room is kept whatever its size.
KeepRoomOnLeave(room, streamKey) == FALSE

DeleteRoomOnLeave(room, streamKey) == Cardinality(DOMAIN room.participants) = 0

Disconnect(c) ==
  /\ connOpen[c]
  /\ connOpen' = [connOpen EXCEPT ![c] = FALSE]
  /\ ioRooms' = [ioRooms EXCEPT ![c] = {}]
  /\ sockData' = [sockData EXCEPT ![c] = NoData]   \* the socket object is gone
  /\ last' = Cmd("disconnect", c, sockData[c].streamKey)
  /\ IF InRoom(c)
     THEN LET streamKey == sockData[c].streamKey
              room == RoomAfterLeave(rooms[streamKey], c)
          IN /\ out' = << Ev("participant-left", "others", streamKey, 0) >>
             /\ IF DeleteRoomOnLeave(room, streamKey)
                THEN /\ rooms' = Del(rooms, streamKey)
                     /\ teacherSet' = IF Has(activeStreams, streamKey) THEN teacherSet
                                      ELSE [teacherSet EXCEPT ![streamKey] = FALSE]
                ELSE /\ rooms' = Put(rooms, streamKey, room)
                     /\ UNCHANGED teacherSet
     ELSE /\ out' = <<>>
          /\ UNCHANGED <<rooms, teacherSet>>
  /\ UNCHANGED <<polls, pollTimers, ballots, streamVars, legacyVars, files>>
  /\ Transport(c)

MaxQueue == 2      \* entries of a hand-raise queue

\* if (participant && !participant.handRaised)
CanRaise(c) ==
  /\ InRoom(c)
  /\ Has(rooms[sockData[c].streamKey].participants, c)
  /\ ~rooms[sockData[c].streamKey].participants[c].handRaised

\* Mutant of RaiseHand: the new entry is put at the head of the queue.
RaiseHandAtFront(c) ==
  /\ connOpen[c]
  /\ last' = Cmd("raise-hand", c, sockData[c].streamKey)
  /\ IF CanRaise(c)
     THEN /\ Len(rooms[sockData[c].streamKey].handRaises) < MaxQueue
          /\ rooms' = [rooms EXCEPT ![sockData[c].streamKey] =
                         [@ EXCEPT !.participants[c].handRaised = TRUE,
                                   !.handRaises = <<c>> \o @]]
          /\ out' = << Ev("hand-raised", "room", sockData[c].streamKey, 0) >>
     ELSE /\ out' = <<>>
          /\ UNCHANGED rooms
  /\ UNCHANGED <<sockData, connOpen, ioRooms, polls, pollTimers, ballots, teacherSet,
                 streamVars, legacyVars, files>>
  /\ Transport(c)

RaiseHand(c) ==
  /\ connOpen[c]
  /\ last' = Cmd("raise-hand", c, sockData[c].streamKey)
  /\ IF CanRaise(c)
     THEN /\ Len(rooms[sockData[c].streamKey].handRaises) < MaxQueue
          /\ rooms' = [rooms EXCEPT ![sockData[c].streamKey] =
                         [@ EXCEPT !.participants[c].handRaised = TRUE,
                                   !.handRaises = Append(@, c)]]
          /\ out' = << Ev("hand-raised", "room", sockData[c].streamKey, 0) >>
     ELSE /\ out' = <<>>
          /\ UNCHANGED rooms
  /\ UNCHANGED <<sockData, connOpen, ioRooms, polls, pollTimers, ballots, teacherSet,
                 streamVars, legacyVars, files>>
  /\ Transport(c)

\* if (participant && participant.handRaised)
CanLower(c) ==
  /\ InRoom(c)
  /\ Has(rooms[sockData[c].streamKey].participants, c)
  /\ rooms[sockData[c].streamKey].participants[c].handRaised

LowerHand(c) ==
  /\ connOpen[c]
  /\ last' = Cmd("lower-hand", c, sockData[c].streamKey)
  /\ IF CanLower(c)
     THEN /\ rooms' = [rooms EXCEPT ![sockData[c].streamKey] =
                         [@ EXCEPT !.participants[c].handRaised = FALSE,
                                   !.handRaises = Filter(@, LAMBDA h : h # c)]]
          /\ out' = << Ev("hand-lowered", "room", sockData[c].streamKey, 0) >>
     ELSE /\ out' = <<>>
          /\ UNCHANGED rooms
  /\ UNCHANGED <<sockData, connOpen, ioRooms, polls, pollTimers, ballots, teacherSet,
                 streamVars, legacyVars, files>>
  /\ Transport(c)

\* chat-message: the message gets a fresh id and the current time; its place
\* in the log stands for both.
ChatMessage(c) ==
  /\ connOpen[c]
  /\ last' = Cmd("chat-message", c, sockData[c].streamKey)
  /\ IF InRoom(c)
     THEN LET streamKey == sockData[c].streamKey
              chatMessage == [id |-> Len(rooms[streamKey].messages) + 1]
          IN /\ Len(rooms[streamKey].messages) < MaxMessages
             /\ rooms' = [rooms EXCEPT ![streamKey].messages = Append(@, chatMessage)]
             /\ out' = << EvWith("chat-message", "room", streamKey, chatMessage) >>
     ELSE /\ out' = <<>>
          /\ UNCHANGED rooms
  /\ UNCHANGED <<sockData, connOpen, ioRooms, polls, pollTimers, ballots, teacherSet,
                 streamVars, legacyVars, files>>
  /\ Transport(c)

\* The client hook emits close-poll (useSocket closePoll); server/index.js
\* registers no listener for it, so socket.io drops the packet.
ClosePollUnhandled(c, pollId) ==
  /\ connOpen[c]
  /\ last' = Cmd("close-poll", c, sockData[c].streamKey)
  /\ out' = <<>>
  /\ UNCHANGED <<hubVars, streamVars, legacyVars, files>>
  /\ UNCHANGED clientVars

\* The commands whose listener destructures its payload in the parameter list.
MalformedOps == {"join-room", "chat-message", "create-poll"}

\* Where a malformed payload makes the listener throw a TypeError:
\*   join-room, chat-message without a payload object: ({ ... }) => destructures
\*     undefined, before the first statement of the listener;
\*   create-poll with an object whose options is not a list: options.map(...),
\*     reached only past the teacher guard.
Throws(c, op) ==
  \/ op \in {"join-room", "chat-message"}
  \/ op = "create-poll" /\ MayTeach(c)

\* A command with a malformed payload.  No listener has a try/catch and the
\* process installs no uncaughtException handler: socket.io calls listeners
\* from process.nextTick, so a throw ends the Node process.  Every socket
\* closes, the in-memory maps and the pending timers are gone; the FFmpeg
\* children are processes of their own.
MalformedPayload(c, op) ==
  /\ connOpen[c]
  /\ last' = Cmd(op, c, sockData[c].streamKey)
  /\ out' = <<>>
  /\ IF Throws(c, op)
     THEN /\ rooms' = EmptyMap
          /\ sockData' = [d \in Conns |-> NoData]
          /\ connOpen' = [d \in Conns |-> FALSE]
          /\ ioRooms' = [d \in Conns |-> {}]
          /\ pollTimers' = {}
          /\ activeStreams' = EmptyMap
          /\ activeProcesses' = EmptyMap
          /\ killTimers' = {}
          /\ playlistTimers' = {}
     ELSE UNCHANGED <<rooms, sockData, connOpen, ioRooms, pollTimers, activeStreams,
                      activeProcesses, killTimers, playlistTimers>>
  /\ UNCHANGED <<polls, ballots, teacherSet, procs, legacyVars, files>>
  /\ UNCHANGED clientVars

\* ------------------------------------------------- transcoder.js (part_006)
\* A child process.  rec stands for the recording path
\* <recordingDir>/<key>_<Date.now()>.flv: the pid orders the spawns in time.
Proc(streamKey, codecs, pid) ==
  [ key |-> streamKey, codecs |-> codecs, state |-> "running",
    killed |-> FALSE, rec |-> <<streamKey, pid>> ]

Live(pid) == procs[pid].state = "running"

\* The codec list handed to FFmpeg: H.264 always, H.265 when enabled.
Codecs(enableH265) == IF enableH265 THEN {"h264", "h265"} ELSE {"h264"}

File(streamKey, codec, kind) == [key |-> streamKey, codec |-> codec, kind |-> kind]

\* Mutant of MasterPlaylists: the callback reads the room's current setting
\* instead of the value startTranscoding was called with.
MasterPlaylistsFromRoom(timer) ==
  {File(timer.key, codec, "master") :
     codec \in Codecs(IF Has(rooms, timer.key) THEN rooms[timer.key].h265Enabled ELSE FALSE)}

\* createMasterPlaylist for every codec the delayed callback was created with
MasterPlaylists(timer) == {File(timer.key, codec, "master") : codec \in timer.codecs}

NextPid == Cardinality(DOMAIN procs) + 1

\* startTranscoding(streamKey, enableH265): spawns, stores the entry under the
\* key (replacing whatever was there), arms the 2 s master-playlist timer and
\* returns the recording path.
StartEntry(entries, streamKey, pid) == Put(entries, streamKey, pid)

startTranscoding(streamKey, enableH265) ==
  /\ NextPid <= MaxSpawns
  /\ procs' = Put(procs, NextPid, Proc(streamKey, Codecs(enableH265), NextPid))
  /\ activeProcesses' = StartEntry(activeProcesses, streamKey, NextPid)
  /\ playlistTimers' = playlistTimers \cup
       {[key |-> streamKey, codecs |-> Codecs(enableH265), pid |-> NextPid]}

\* ChildProcess.kill(signal): delivers the signal and sets .killed only while
\* the process has not exited.
Signalled(proc) == IF proc.state = "running" THEN [proc EXCEPT !.killed = TRUE] ELSE proc

\* stopTranscoding(streamKey): SIGINT, arm the 5 s force-kill timer, drop the entry.
stopTranscoding(streamKey) ==
  IF Has(activeProcesses, streamKey)
  THEN LET pid == activeProcesses[streamKey]
       IN /\ procs' = [procs EXCEPT ![pid] = Signalled(@)]
          /\ killTimers' = killTimers \cup {pid}
          /\ activeProcesses' = Del(activeProcesses, streamKey)
  ELSE UNCHANGED <<procs, killTimers, activeProcesses>>

\* What stopTranscoding returns: entry.recordingPath, or null (NoKey) when
\* no entry is stored under the key.
stopTranscodingReturn(streamKey) ==
  IF Has(activeProcesses, streamKey) THEN procs[activeProcesses[streamKey]].rec ELSE NoKey

\* setTimeout(() => { if (!entry.process.killed) entry.process.kill('SIGKILL') }, 5000)
KillTimerFire(pid) ==
  /\ pid \in killTimers
  /\ killTimers' = killTimers \ {pid}
  /\ procs' = [procs EXCEPT ![pid] =
                 IF ~procs[pid].killed /\ procs[pid].state = "running"
                 THEN [@ EXCEPT !.state = "exited", !.killed = TRUE] ELSE @]
  /\ out' = <<>>
  /\ last' = Cmd("kill-timer", 0, procs[pid].key)
  /\ UNCHANGED <<hubVars, activeStreams, activeProcesses, playlistTimers, legacyVars, files>>
  /\ UNCHANGED clientVars

\* The child exits (crash, end of input, or after a signal): the 'close'
\* listener deletes the entry stored under the key of the exited process.
CloseEntry(entries, pid) == Del(entries, procs[pid].key)

ProcExit(pid) ==
  /\ Has(procs, pid) /\ Live(pid)
  /\ procs' = [procs EXCEPT ![pid].state = "exited"]
  /\ activeProcesses' = CloseEntry(activeProcesses, pid)
  /\ out' = <<>>
  /\ last' = Cmd("proc-close", 0, procs[pid].key)
  /\ UNCHANGED <<hubVars, activeStreams, killTimers, playlistTimers, legacyVars, files>>
  /\ UNCHANGED clientVars

\* spawn() does not throw when the FFmpeg binary cannot be started: it returns
\* a child that never runs and reports the failure later through 'error'.
startTranscodingSpawnFails(streamKey, enableH265) ==
  /\ NextPid <= MaxSpawns
  /\ procs' = Put(procs, NextPid,
       [Proc(streamKey, Codecs(enableH265), NextPid) EXCEPT !.state = "failed"])
  /\ activeProcesses' = StartEntry(activeProcesses, streamKey, NextPid)
  /\ playlistTimers' = playlistTimers \cup
       {[key |-> streamKey, codecs |-> Codecs(enableH265), pid |-> NextPid]}

\* The events of a child that could not be spawned: the 'error' listener
\* logs, the 'close' listener deletes the entry stored under the key.
SpawnError(pid) ==
  /\ Has(procs, pid) /\ procs[pid].state = "failed"
  /\ procs' = [procs EXCEPT ![pid].state = "exited"]
  /\ activeProcesses' = CloseEntry(activeProcesses, pid)
  /\ out' = <<>>
  /\ last' = Cmd("proc-error", 0, procs[pid].key)
  /\ UNCHANGED <<hubVars, activeStreams, killTimers, playlistTimers, legacyVars, files>>
  /\ UNCHANGED clientVars

PlaylistTimerFire(timer) ==
  /\ timer \in playlistTimers
  /\ playlistTimers' = playlistTimers \ {timer}
  /\ files' = files \cup MasterPlaylists(timer)
  /\ out' = <<>>
  /\ last' = Cmd("playlist-timer", 0, timer.key)
  /\ UNCHANGED <<hubVars, activeStreams, activeProcesses, procs, killTimers, legacyVars>>
  /\ UNCHANGED clientVars

\* ------------------------------------------- server/index.js publish handlers
\* room ? room.streamSettings.h265Enabled : false
PolicyAtPublish(streamKey) ==
  IF Has(rooms, streamKey) THEN rooms[streamKey].h265Enabled ELSE FALSE

\* Mutant of PostPublish: a postPublish for a key that has a row is ignored.
PostPublishUnlessRow(streamKey, publisherIp) ==
  /\ out' = <<>>
  /\ last' = Cmd("postPublish", 0, streamKey)
  /\ IF Has(activeStreams, streamKey)
     THEN UNCHANGED <<activeStreams, activeProcesses, procs, playlistTimers>>
     ELSE /\ startTranscoding(streamKey, PolicyAtPublish(streamKey))
          /\ activeStreams' = Put(activeStreams, streamKey,
               [ startTime |-> NextPid, publisherIp |-> publisherIp,
                 recordingPath |-> <<streamKey, NextPid>> ])
  /\ UNCHANGED <<hubVars, killTimers, legacyVars, files>>
  /\ UNCHANGED clientVars

\* Events without a stream path return early and change nothing; they are not
\* modelled.  publisherIp is 'unknown' unless the path came from a session object.
PostPublish(streamKey, publisherIp) ==
  /\ startTranscoding(streamKey, PolicyAtPublish(streamKey))
  /\ activeStreams' = Put(activeStreams, streamKey,
       [ startTime |-> NextPid, publisherIp |-> publisherIp,
         recordingPath |-> <<streamKey, NextPid>> ])
  /\ out' = <<>>
  /\ last' = Cmd("postPublish", 0, streamKey)
  /\ UNCHANGED <<hubVars, killTimers, legacyVars, files>>
  /\ UNCHANGED clientVars

\* postPublish when the spawn inside startTranscoding fails: nothing throws,
\* so the handler runs to its end exactly as for a successful spawn.
PostPublishSpawnFails(streamKey, publisherIp) ==
  /\ startTranscodingSpawnFails(streamKey, PolicyAtPublish(streamKey))
  /\ activeStreams' = Put(activeStreams, streamKey,
       [ startTime |-> NextPid, publisherIp |-> publisherIp,
         recordingPath |-> <<streamKey, NextPid>> ])
  /\ out' = <<>>
  /\ last' = Cmd("postPublish", 0, streamKey)
  /\ UNCHANGED <<hubVars, killTimers, legacyVars, files>>
  /\ UNCHANGED clientVars

DonePublish(streamKey) ==
  /\ stopTranscoding(streamKey)
  /\ activeStreams' = Del(activeStreams, streamKey)
  /\ out' = <<>>
  /\ last' = Cmd("donePublish", 0, streamKey)
  /\ teacherSet' = IF Has(rooms, streamKey) THEN teacherSet
                   ELSE [teacherSet EXCEPT ![streamKey] = FALSE]
  /\ UNCHANGED <<rooms, sockData, connOpen, ioRooms, polls, pollTimers, ballots,
                 playlistTimers, legacyVars, files>>
  /\ UNCHANGED clientVars

\* GET /api/streams: the keys reported as live are the rows of activeStreams.
ApiLiveKeys == DOMAIN activeStreams

\* GET /api/streams: subscribers: room ? room.participants.size - 1 : 0
Subscribers(streamKey) ==
  IF Has(rooms, streamKey) THEN Cardinality(DOMAIN rooms[streamKey].participants) - 1 ELSE 0

\* ------------------------------------------------------------------- Init
\* The server after start-up: no room, no stream, every connection open.
InitServer ==
  /\ rooms = EmptyMap
  /\ sockData = [c \in Conns |-> NoData]
  /\ connOpen = [c \in Conns |-> TRUE]
  /\ ioRooms = [c \in Conns |-> {}]
  /\ polls = EmptyMap
  /\ pollTimers = {}
  /\ ballots = EmptyMap
  /\ teacherSet = [k \in Keys |-> FALSE]
  /\ activeStreams = EmptyMap
  /\ activeProcesses = EmptyMap
  /\ procs = EmptyMap
  /\ killTimers = {}
  /\ playlistTimers = {}
  /\ files = {}
  /\ activeEncodings = EmptyMap
  /\ startEvents = {}
  /\ cleanupTimers = [k \in Keys |-> 0]
  /\ out = <<>>
  /\ last = Cmd("init", 0, NoKey)

\* No client is followed: the queues of the transport are not recorded.
Init ==
  /\ InitServer
  /\ inbox = EmptyMap
  /\ received = EmptyMap
  /\ typingUsers = EmptyMap
  /\ sent = 0

\* The client of every connection is followed.
InitClients ==
  /\ InitServer
  /\ inbox = [c \in Conns |-> <<>>]
  /\ received = [c \in Conns |-> <<>>]
  /\ typingUsers = [c \in Conns |-> {}]
  /\ sent = 0

\* ------------------------------------------ legacy server (part_010): hub
\* The legacy hub has the same handlers as server/index.js and, in addition,
\* close-poll.
CanClose(c, pollId) ==
  /\ MayTeach(c)
  /\ FindPoll(rooms[sockData[c].streamKey], pollId) # 0
  /\ polls[pollId].status = "active"

ClosePoll(c, pollId) ==
  /\ connOpen[c]
  /\ last' = Cmd("close-poll", c, sockData[c].streamKey)
  /\ IF CanClose(c, pollId)
     THEN /\ polls' = [polls EXCEPT ![pollId].status = "closed"]
          /\ out' = << Ev("poll-closed", "room", sockData[c].streamKey, pollId) >>
     ELSE /\ out' = <<>>
          /\ UNCHANGED polls
  /\ UNCHANGED <<rooms, sockData, connOpen, ioRooms, pollTimers, ballots, teacherSet,
                 streamVars, legacyVars, files>>
  /\ Transport(c)

\* typing: the legacy hub relays the flag to the others of the sender's
\* room.  The model has one user per connection: the connection id stands
\* for the username.
Typing(c, isTyping) ==
  /\ connOpen[c]
  /\ last' = Cmd("typing", c, sockData[c].streamKey)
  /\ out' = IF sockData[c].streamKey # NoKey
            THEN << EvWith("user-typing", "others", sockData[c].streamKey,
                           [username |-> c, isTyping |-> isTyping]) >>
            ELSE <<>>
  /\ UNCHANGED <<hubVars, streamVars, legacyVars, files>>
  /\ Transport(c)

\* ----------------------------------------------- client (useSocket, part_001)
\* newSocket.on('user-typing'): add the username, or filter it out.  No other
\* listener of the hook touches typingUsers.
TypingAfter(users, event) ==
  IF event.ev = "user-typing"
  THEN IF event.payload.isTyping
       THEN users \cup {event.payload.username}
       ELSE users \ {event.payload.username}
  ELSE users

\* The client of connection c handles the oldest event waiting for it.
Receive(c) ==
  /\ c \in DOMAIN inbox
  /\ connOpen[c]
  /\ inbox[c] # <<>>
  /\ inbox' = [inbox EXCEPT ![c] = Tail(@)]
  /\ received' = [received EXCEPT ![c] = Append(@, Head(inbox[c]))]
  /\ typingUsers' = [typingUsers EXCEPT ![c] = TypingAfter(@, Head(inbox[c]).e)]
  /\ out' = <<>>
  /\ last' = Cmd("receive", c, Head(inbox[c]).e.room)
  /\ UNCHANGED <<hubVars, streamVars, legacyVars, files, sent>>

\* --------------------------- legacy server (part_010): publish and cleanup
\* The name of a file of the streams directory, as a character sequence.
\*   master   <key>_<codec>.m3u8          variant  <key>_<codec>_<res>.m3u8
\*   segment  <key>_<codec>_<res>_001.m4s init     init_<key>_<codec>_<res>.mp4
InitPrefix == <<"i", "n", "i", "t", "_">>

Ext(kind) ==
  CASE kind = "master" -> ".m3u8"
    [] kind = "variant" -> ".m3u8"
    [] kind = "segment" -> ".m4s"
    [] kind = "init" -> ".mp4"

FileName(f) ==
  (IF f.kind = "init" THEN InitPrefix ELSE <<>>) \o f.key \o <<"_", f.codec>>
    \o (IF f.kind = "master" THEN <<>> ELSE <<"_", "720p">>)
    \o (IF f.kind = "segment" THEN <<"_", "001">> ELSE <<>>)

\* file.startsWith(streamKey)
StartsWith(name, streamKey) ==
  Len(streamKey) <= Len(name) /\ SubSeq(name, 1, Len(streamKey)) = streamKey

\* file.includes('init_')
IncludesInit(name) ==
  \E i \in 1..Len(name) :
    i + Len(InitPrefix) - 1 <= Len(name) /\ SubSeq(name, i, i + Len(InitPrefix) - 1) = InitPrefix

\* The two filters of the cleanup callback.
CleanupMatches(f, streamKey) ==
  /\ StartsWith(FileName(f), streamKey)
  /\ \/ Ext(f.kind) = ".m3u8"
     \/ Ext(f.kind) = ".ts"
     \/ Ext(f.kind) = ".m4s"
     \/ (Ext(f.kind) = ".mp4" /\ IncludesInit(FileName(f)))

\* What an ffmpeg command writes while it runs.
OutputFiles(proc) ==
  {File(proc.key, codec, kind) : codec \in proc.codecs, kind \in {"variant", "segment", "init"}}

MaxCleanups == 2   \* cleanup timers pending at once for one key

\* A fluent-ffmpeg command is created by run(); its process starts (and the
\* 'start' event fires) later.
LegacyCmd(streamKey, codec, pid) ==
  [Proc(streamKey, {codec}, pid) EXCEPT !.state = "pending", !.rec = NoKey]

LegacyCodecList(h265Enabled) == IF h265Enabled THEN <<"h264", "h265">> ELSE <<"h264">>

LegacyPostPublish(streamKey, publisherIp) ==
  LET list == LegacyCodecList(PolicyAtPublish(streamKey))
      pids == [i \in 1..Len(list) |-> NextPid + i - 1]
  IN /\ NextPid + Len(list) - 1 <= MaxSpawns
     /\ activeStreams' = Put(activeStreams, streamKey,
          [startTime |-> NextPid, publisherIp |-> publisherIp, recordingPath |-> NoKey])
     /\ procs' = [pid \in (DOMAIN procs) \cup {pids[i] : i \in 1..Len(list)} |->
                    IF pid \in DOMAIN procs THEN procs[pid]
                    ELSE LegacyCmd(streamKey, list[pid - NextPid + 1], pid)]
     /\ startEvents' = startEvents \cup {pids[i] : i \in 1..Len(list)}
     /\ activeEncodings' = Put(activeEncodings, streamKey, pids)
     /\ out' = <<>>
     /\ last' = Cmd("postPublish", 0, streamKey)
     /\ UNCHANGED <<hubVars, activeProcesses, killTimers, playlistTimers, cleanupTimers, files>>
  /\ UNCHANGED clientVars

\* cmd.on('start'): the process is running; createMasterPlaylist(streamKey, codec)
LegacyStart(pid) ==
  /\ pid \in startEvents
  /\ startEvents' = startEvents \ {pid}
  /\ procs' = [procs EXCEPT ![pid].state = "running"]
  /\ files' = files \cup {File(procs[pid].key, codec, "master") : codec \in procs[pid].codecs}
  /\ out' = <<>>
  /\ last' = Cmd("ffmpeg-start", 0, procs[pid].key)
  /\ UNCHANGED <<hubVars, activeStreams, activeProcesses, killTimers, playlistTimers,
                 activeEncodings, cleanupTimers>>
  /\ UNCHANGED clientVars

\* A running ffmpeg writes its playlists and segments into the directory.
LegacyWrite(pid) ==
  /\ Has(procs, pid) /\ Live(pid)
  /\ files' = files \cup OutputFiles(procs[pid])
  /\ out' = <<>>
  /\ last' = Cmd("ffmpeg-write", 0, procs[pid].key)
  /\ UNCHANGED <<hubVars, streamVars, legacyVars>>
  /\ UNCHANGED clientVars

\* cmd.kill('SIGKILL'): only a started process can be signalled.
LegacyKilled(proc) == IF proc.state = "running" THEN [proc EXCEPT !.state = "exited"] ELSE proc

\* activeStreams.delete, kill the commands stored for the key, and always arm
\* the 10 s cleanup timer.
LegacyDonePublish(streamKey) ==
  /\ cleanupTimers[streamKey] < MaxCleanups
  /\ activeStreams' = Del(activeStreams, streamKey)
  /\ IF Has(activeEncodings, streamKey)
     THEN LET pids == {activeEncodings[streamKey][i] : i \in 1..Len(activeEncodings[streamKey])}
          IN /\ procs' = [pid \in DOMAIN procs |->
                            IF pid \in pids THEN LegacyKilled(procs[pid]) ELSE procs[pid]]
             /\ activeEncodings' = Del(activeEncodings, streamKey)
     ELSE UNCHANGED <<procs, activeEncodings>>
  /\ cleanupTimers' = [cleanupTimers EXCEPT ![streamKey] = @ + 1]
  /\ out' = <<>>
  /\ last' = Cmd("donePublish", 0, streamKey)
  /\ UNCHANGED <<hubVars, activeProcesses, killTimers, playlistTimers, startEvents, files>>
  /\ UNCHANGED clientVars

\* The cleanup callback: it holds only the stream key.
CleanupDeletes(streamKey) == {f \in files : CleanupMatches(f, streamKey)}

CleanupFire(streamKey) ==
  /\ cleanupTimers[streamKey] > 0
  /\ cleanupTimers' = [cleanupTimers EXCEPT ![streamKey] = @ - 1]
  /\ files' = files \ CleanupDeletes(streamKey)
  /\ out' = <<>>
  /\ last' = Cmd("cleanup-timer", 0, streamKey)
  /\ UNCHANGED <<hubVars, streamVars, activeEncodings, startEvents>>
  /\ UNCHANGED clientVars

\* ==================================================== specifications
\* The hub and the stream lifecycle share only rooms[key].h265Enabled, which
\* the publish handlers read and never write.  Each specification below is
\* the program restricted to the handlers that read or write the state its
\* claims are about; the handlers left out leave that state alone.
Ips == {"unknown", "10.0.0.7"}
OneKey == {K1}
OneIp == {"unknown"}

\* ---- server/index.js + transcoder.js: the supervisor and the stream table
NextSupervisor ==
  \/ \E k \in Keys, ip \in Ips : PostPublish(k, ip)
  \/ \E k \in Keys : DonePublish(k)
  \/ \E pid \in 1..MaxSpawns : ProcExit(pid)
  \/ \E pid \in 1..MaxSpawns : KillTimerFire(pid)
  \/ \E t \in playlistTimers : PlaylistTimerFire(t)

SpecSupervisor == Init /\ [][NextSupervisor]_vars

\* ---- server/index.js + transcoder.js: the supervisor when spawns can fail
NextSpawnFailure ==
  \/ NextSupervisor
  \/ \E k \in Keys, ip \in Ips : PostPublishSpawnFails(k, ip)
  \/ \E pid \in 1..MaxSpawns : SpawnError(pid)

SpecSpawnFailure == Init /\ [][NextSpawnFailure]_vars

\* ---- server/index.js + transcoder.js: rooms, codec policy and publishes
NextPolicy ==
  \/ \E c \in Conns, k \in OneKey, r \in Roles : JoinRoom(c, k, r)
  \/ \E c \in Conns, b \in BOOLEAN : UpdateStreamSettings(c, b)
  \/ \E c \in Conns : Disconnect(c)
  \/ \E k \in OneKey, ip \in OneIp : PostPublish(k, ip)
  \/ \E k \in OneKey : DonePublish(k)
  \/ \E t \in playlistTimers : PlaylistTimerFire(t)

SpecPolicy == Init /\ [][NextPolicy]_vars

\* ---- server/index.js: polls
NextPolls ==
  \/ \E c \in Conns, k \in OneKey, r \in Roles : JoinRoom(c, k, r)
  \/ \E c \in Conns, n \in 1..MaxOptions, d \in Durations : CreatePoll(c, n, d)
  \/ \E c \in Conns, p \in 0..MaxPolls, o \in 0..MaxOptions : VotePoll(c, p, o)
  \/ \E id \in 1..MaxPolls : PollTimerFire(id)
  \/ \E c \in Conns : Disconnect(c)

SpecPolls == Init /\ [][NextPolls]_vars

\* A timer armed with setTimeout fires once its delay has elapsed.
SpecPollsFair == SpecPolls /\ \A id \in 1..MaxPolls : WF_vars(PollTimerFire(id))

\* ---- legacy server: polls and the teacher-only commands
NextLegacyPolls ==
  \/ NextPolls
  \/ \E c \in Conns, p \in 0..MaxPolls : ClosePoll(c, p)
  \/ \E c \in Conns, b \in BOOLEAN : UpdateStreamSettings(c, b)

SpecLegacyPolls == Init /\ [][NextLegacyPolls]_vars

\* ---- server/index.js: polls, with the close-poll command its clients send
NextPollsAndClose ==
  \/ NextPolls
  \/ \E c \in Conns, p \in 0..MaxPolls : ClosePollUnhandled(c, p)

SpecPollsAndClose == Init /\ [][NextPollsAndClose]_vars

\* ---- server/index.js: polls, with commands that carry a malformed payload
NextMalformed ==
  \/ NextPolls
  \/ \E c \in Conns, op \in MalformedOps : MalformedPayload(c, op)

SpecMalformed == Init /\ [][NextMalformed]_vars

\* ---- server/index.js: the hub and the clients that handle its events
NextDelivery ==
  \/ \E c \in Conns, k \in OneKey, r \in Roles : JoinRoom(c, k, r)
  \/ \E c \in Conns : ChatMessage(c)
  \/ \E c \in Conns, n \in 1..MaxOptions, d \in Durations : CreatePoll(c, n, d)
  \/ \E id \in 1..MaxPolls : PollTimerFire(id)
  \/ \E c \in Conns : Disconnect(c)
  \/ \E c \in Conns : Receive(c)

SpecDelivery == InitClients /\ [][NextDelivery]_vars

\* ---- legacy server: the typing indicator and the clients that show it
NextTyping ==
  \/ \E c \in Conns, k \in OneKey, r \in Roles : JoinRoom(c, k, r)
  \/ \E c \in Conns, b \in BOOLEAN : Typing(c, b)
  \/ \E c \in Conns : Disconnect(c)
  \/ \E c \in Conns : Receive(c)

SpecTyping == InitClients /\ [][NextTyping]_vars

\* ---- legacy server: publishes and the cleanup of the streams directory
NextLegacyCleanup ==
  \/ \E k \in Keys, ip \in Ips : LegacyPostPublish(k, ip)
  \/ \E pid \in 1..MaxSpawns : LegacyStart(pid)
  \/ \E pid \in 1..MaxSpawns : LegacyWrite(pid)
  \/ \E k \in Keys : LegacyDonePublish(k)
  \/ \E k \in Keys : CleanupFire(k)

SpecLegacyCleanup == Init /\ [][NextLegacyCleanup]_vars

\* ---- server/index.js: chat
NextChat ==
  \/ \E c \in Conns, k \in OneKey, r \in Roles : JoinRoom(c, k, r)
  \/ \E c \in Conns : ChatMessage(c)
  \/ \E c \in Conns : Disconnect(c)

SpecChat == Init /\ [][NextChat]_vars

\* ---- server/index.js: participants and the hand-raise queue
NextHands ==
  \/ \E c \in Conns, k \in Keys, r \in Roles : JoinRoom(c, k, r)
  \/ \E c \in Conns : RaiseHand(c)
  \/ \E c \in Conns : LowerHand(c)
  \/ \E c \in Conns : Disconnect(c)

SpecHands == Init /\ [][NextHands]_vars

\* ============================================================== claims
\* The transcoders for a key that are running and have not been told to stop.
Running(k) == {pid \in DOMAIN procs : procs[pid].key = k /\ Live(pid) /\ ~procs[pid].killed}

\* C1: for every stream key there is at most one live transcoder process;
\* every ActiveStream row has exactly one live transcoder for its key and
\* every live transcoder belongs to an ActiveStream row.
C1_OneTranscoderPerStream ==
  \A k \in Keys :
    /\ Cardinality(Running(k)) <= 1
    /\ Has(activeStreams, k) => Cardinality(Running(k)) = 1
    /\ Running(k) # {} => Has(activeStreams, k)

\* C2: a postPublish(key) that arrives while an ActiveStream row exists for
\* key spawns nothing and leaves the row and the supervisor's entry unchanged.
C2_DuplicatePostPublishIgnored ==
  [][ \A k \in Keys, ip \in Ips :
        (PostPublish(k, ip) /\ Has(activeStreams, k))
          => UNCHANGED <<activeStreams, activeProcesses, procs>> ]_vars

\* C3: the cleanup scheduled by donePublish(key) deletes files only if no
\* ActiveStream for key exists when the grace timer fires.
C3_CleanupSparesNewPublish ==
  [][ \A k \in Keys : (CleanupFire(k) /\ Has(activeStreams, k)) => files' = files ]_vars

\* C4: a room is never destroyed while an ActiveStream exists for its key.
C4_RoomKeptWhileStreaming ==
  [][ \A k \in Keys :
        (Has(rooms, k) /\ Has(activeStreams, k) /\ Has(activeStreams', k))
          => Has(rooms', k) ]_vars

\* C5: the codec policy is snapshotted at postPublish: no step changes the
\* codec list of a spawned transcoder, a set-codec-policy command leaves the
\* transcoders, the pending playlist writes and the directory alone, and the
\* master playlists written for a publish are those of its transcoder's
\* codec list, whatever the room's policy is when they are written.
C5_PolicySnapshot ==
  [][ /\ \A pid \in DOMAIN procs : procs'[pid].codecs = procs[pid].codecs
      /\ \A c \in Conns, b \in BOOLEAN :
           UpdateStreamSettings(c, b) => UNCHANGED <<procs, playlistTimers, files>>
      /\ \A t \in playlistTimers :
           PlaylistTimerFire(t)
             => files' = files \cup {File(t.key, codec, "master") : codec \in procs[t.pid].codecs}
    ]_vars

\* C5 witness: a teacher changed the policy while the stream was active, and
\* the running transcoder's codec list differs from the room's stored policy.
C5_Witness ==
  /\ last.op = "update-stream-settings" /\ out # <<>>
  /\ \E k \in Keys, pid \in DOMAIN procs :
       /\ Has(activeStreams, k) /\ Has(rooms, k)
       /\ procs[pid].key = k /\ Live(pid)
       /\ ("h265" \in procs[pid].codecs) # rooms[k].h265Enabled

\* C6: a postPublish(key) that starts a stream produces the primary codec,
\* plus the secondary codec iff the policy a teacher most recently set for
\* the room of key is enabled (disabled by default).  teacherSet follows the
\* room's lifetime as specified: the room, and with it the policy, lasts
\* until it has no participant and no ActiveStream.
C6_PublishUsesTeacherPolicy ==
  [][ \A k \in Keys, ip \in Ips :
        (PostPublish(k, ip) /\ ~Has(activeStreams, k))
          => procs'[NextPid].codecs = Codecs(teacherSet[k]) ]_vars

\* C7: for every poll the vote counts sum to the number of voters, and each
\* option's count is the number of voters who chose that option.
C7_VoteCounts ==
  \A id \in DOMAIN polls :
    /\ SumSeq(polls[id].options) = Cardinality(polls[id].voters)
    /\ DOMAIN ballots[id] = polls[id].voters
    /\ \A o \in DOMAIN polls[id].options :
         polls[id].options[o] = Cardinality({c \in DOMAIN ballots[id] : ballots[id][c] = o})

\* C7 witness: a poll on which two connections voted for different options.
C7_Witness ==
  \E id \in DOMAIN polls :
    /\ Cardinality(polls[id].voters) = 2
    /\ \E o1, o2 \in DOMAIN polls[id].options :
         o1 # o2 /\ polls[id].options[o1] = 1 /\ polls[id].options[o2] = 1

\* C8: once a poll is closed, no step changes its status, its vote counts
\* or its voters set.
C8_ClosedPollFrozen ==
  [][ \A id \in DOMAIN polls : polls[id].status = "closed" => polls'[id] = polls[id] ]_vars

\* C8 witness: a vote by a member who had not voted was handled after the
\* poll, which has a vote, was closed.
C8_Witness ==
  /\ last.op = "vote-poll" /\ out = <<>>
  /\ InRoom(last.conn)
  /\ \E id \in DOMAIN polls :
       /\ polls[id].status = "closed" /\ polls[id].voters # {}
       /\ last.conn \notin polls[id].voters
       /\ FindPoll(rooms[sockData[last.conn].streamKey], id) # 0

\* C9: a vote is a no-op that emits nothing when the poll is unknown or not
\* active, the option is not one of the poll's, or the connection already
\* voted on the poll.
C9_RejectedVoteIsNoOp ==
  [][ \A c \in Conns, p \in 0..MaxPolls, o \in 0..MaxOptions :
        ( /\ VotePoll(c, p, o)
          /\ \/ ~Has(polls, p)
             \/ polls[p].status # "active"
             \/ o \notin DOMAIN polls[p].options
             \/ c \in polls[p].voters )
          => (polls' = polls /\ ballots' = ballots /\ out' = <<>>) ]_vars

\* C9 witness: a connection that had voted voted again on the still active
\* poll: nothing was emitted and the option it chose still has one vote.
C9_Witness ==
  /\ last.op = "vote-poll" /\ out = <<>>
  /\ \E id \in DOMAIN polls :
       /\ polls[id].status = "active"
       /\ polls[id].voters = {last.conn}
       /\ SumSeq(polls[id].options) = 1

\* The role the connection joined its room with.
JoinedAsTeacher(c) ==
  /\ InRoom(c)
  /\ Has(rooms[sockData[c].streamKey].participants, c)
  /\ rooms[sockData[c].streamKey].participants[c].role = "teacher"

\* C10: a teacher-only command (create-poll, close-poll, set-codec-policy)
\* from a connection whose joined role is not teacher changes no room and no
\* poll, arms no timer and emits nothing.
C10_TeacherOnly ==
  [][ \A c \in Conns :
        ( /\ ~JoinedAsTeacher(c)
          /\ \/ \E n \in 1..MaxOptions, d \in Durations : CreatePoll(c, n, d)
             \/ \E p \in 0..MaxPolls : ClosePoll(c, p)
             \/ \E b \in BOOLEAN : UpdateStreamSettings(c, b) )
          => (rooms' = rooms /\ polls' = polls /\ pollTimers' = pollTimers /\ out' = <<>>) ]_vars

\* C10 witness: a student in a room with an active poll sent close-poll.
C10_Witness ==
  /\ last.op = "close-poll" /\ out = <<>>
  /\ InRoom(last.conn)
  /\ rooms[sockData[last.conn].streamKey].participants[last.conn].role = "student"
  /\ \E id \in DOMAIN polls :
       /\ polls[id].status = "active"
       /\ FindPoll(rooms[sockData[last.conn].streamKey], id) # 0

\* The connection ids of a hand-raise queue.
Queued(room) == {room.handRaises[i] : i \in 1..Len(room.handRaises)}

\* C11: for every participant of every room, handRaised is true iff the
\* participant's connection id is in the room's hand-raise queue.
C11_HandRaisedMirrorsQueue ==
  \A k \in DOMAIN rooms : \A c \in DOMAIN rooms[k].participants :
    rooms[k].participants[c].handRaised <=> (c \in Queued(rooms[k]))

\* C12: the hand-raise queue of every room holds each connection id at most
\* once.
C12_QueueHasNoDuplicates ==
  \A k \in DOMAIN rooms :
    \A i, j \in 1..Len(rooms[k].handRaises) :
      rooms[k].handRaises[i] = rooms[k].handRaises[j] => i = j

\* C13: each connection id is in the participants map of at most one room.
C13_OneRoomPerConnection ==
  \A c \in Conns :
    Cardinality({k \in DOMAIN rooms : Has(rooms[k].participants, c)}) <= 1

\* C14: a poll created with an auto-close delay is eventually closed, and a
\* poll-closed event for it is emitted, whatever else happens meanwhile.
C14_AutoCloseHappens ==
  \A id \in 1..MaxPolls :
    (id \in pollTimers)
      ~> ( /\ id \notin pollTimers
           /\ Has(polls, id)
           /\ polls[id].status = "closed"
           /\ last.op = "poll-timer"
           /\ out = << Ev("poll-closed", "room", polls[id].room, id) >> )

\* C14 witness: the timer closed a poll on which nobody had voted.
C14_Witness ==
  /\ last.op = "poll-timer"
  /\ \E id \in DOMAIN polls :
       /\ polls[id].status = "closed" /\ polls[id].voters = {} /\ polls[id].duration # 0
       /\ out = << Ev("poll-closed", "room", polls[id].room, id) >>

\* The poll-closed events the last handler emitted for a poll.
EmitsPollClosed(events, id) ==
  \E i \in 1..Len(events) : events[i].ev = "poll-closed" /\ events[i].poll = id

\* C15: poll-closed is emitted for a poll at most once: a step emits it only
\* for a poll that was still active, so neither the auto-close timer nor a
\* close-poll emits it for a poll that is already closed.
C15_PollClosedOnce ==
  [][ \A id \in DOMAIN polls :
        EmitsPollClosed(out', id) => polls[id].status = "active" ]_vars

\* C16: a close-poll from a joined teacher for an active poll of the
\* teacher's room closes the poll and broadcasts poll-closed to the room.
C16_TeacherClosesPoll ==
  [][ \A c \in Conns, id \in DOMAIN polls :
        ( /\ ClosePollUnhandled(c, id)
          /\ JoinedAsTeacher(c) /\ sockData[c].role = "teacher"
          /\ FindPoll(rooms[sockData[c].streamKey], id) # 0
          /\ polls[id].status = "active" )
          => ( /\ polls'[id].status = "closed"
               /\ out' = << Ev("poll-closed", "room", sockData[c].streamKey, id) >> )
    ]_vars

\* C17: when the 5-second timer armed by stop() fires, the process has
\* exited or is force-killed: after the timer it is not running.
C17_ForceKillAfterGrace ==
  [][ \A pid \in killTimers : KillTimerFire(pid) => procs'[pid].state = "exited" ]_vars

\* The transcoder spawned last for a key.
LatestFor(k) ==
  CHOOSE pid \in DOMAIN procs :
    procs[pid].key = k /\ \A q \in DOMAIN procs : procs[q].key = k => q <= pid

\* C18: a stop(key) issued after stop(key) already stopped the key's
\* transcoder sends no signal, arms no timer, changes no entry, and returns
\* the recording path the first call returned.
C18_StopIdempotent ==
  [][ \A k \in Keys :
        ( /\ DonePublish(k)
          /\ ~Has(activeProcesses, k)
          /\ \E pid \in DOMAIN procs : procs[pid].key = k
          /\ procs[LatestFor(k)].killed )
          => ( /\ UNCHANGED <<procs, killTimers, activeProcesses>>
               /\ stopTranscodingReturn(k) = procs[LatestFor(k)].rec )
    ]_vars

\* The stream-failed events the last handler emitted for a key.
EmitsStreamFailed(events, k) ==
  \E i \in 1..Len(events) : events[i].ev = "stream-failed" /\ events[i].room = k

\* C19: when the transcoder of an active stream exits without having been
\* stopped, the key is no longer reported as a live stream and stream-failed
\* is emitted to the key's room.
C19_CrashMarksStreamFailed ==
  [][ \A pid \in DOMAIN procs :
        ( /\ ProcExit(pid)
          /\ ~procs[pid].killed
          /\ Has(activeProcesses, procs[pid].key)
          /\ activeProcesses[procs[pid].key] = pid
          /\ procs[pid].key \in ApiLiveKeys )
          => ( /\ procs[pid].key \notin ApiLiveKeys'
               /\ EmitsStreamFailed(out', procs[pid].key) )
    ]_vars

\* The key's latest transcoder exited without having been stopped, and the
\* row of the stream is still there.
Crashed(k) ==
  /\ Has(activeStreams, k) /\ ~Has(activeProcesses, k)
  /\ \E pid \in DOMAIN procs : procs[pid].key = k
  /\ procs[LatestFor(k)].state = "exited" /\ ~procs[LatestFor(k)].killed

\* C20: a postPublish(key) after the key's transcoder exited unexpectedly
\* spawns a fresh transcoder, stores it as the key's process, and leaves a
\* row for key whose recording path is that of the new process.
C20_RepublishAfterCrash ==
  [][ \A k \in Keys, ip \in Ips :
        (PostPublish(k, ip) /\ Crashed(k))
          => ( /\ ~Has(procs, NextPid) /\ Has(procs', NextPid)
               /\ procs'[NextPid].key = k /\ procs'[NextPid].state = "running"
               /\ activeProcesses'[k] = NextPid
               /\ Has(activeStreams', k)
               /\ activeStreams'[k].recordingPath = procs'[NextPid].rec
               /\ activeStreams'[k].recordingPath # activeStreams[k].recordingPath )
    ]_vars

\* C20 witness: the last handler was a postPublish for a key whose earlier
\* transcoder had exited unstopped; the key's process is the new one.
C20_Witness ==
  /\ last.op = "postPublish"
  /\ Has(activeStreams, last.key) /\ Has(activeProcesses, last.key)
  /\ \E old \in DOMAIN procs :
       /\ procs[old].key = last.key /\ old < activeProcesses[last.key]
       /\ procs[old].state = "exited" /\ ~procs[old].killed
  /\ Live(activeProcesses[last.key])
  /\ activeStreams[last.key].recordingPath = procs[activeProcesses[last.key]].rec

\* C21: when the cleanup timer of key fires and key has not been published
\* again (no row, every transcoder of key has stopped), no playlist, segment
\* or init file produced for key is left in the streams directory.
C21_CleanupRemovesOutputs ==
  [][ \A k \in Keys :
        ( /\ CleanupFire(k)
          /\ ~Has(activeStreams, k) /\ ~Has(activeEncodings, k)
          /\ \A pid \in DOMAIN procs : procs[pid].key = k => procs[pid].state = "exited" )
          => \A f \in files' : f.key # k ]_vars

\* C22: a donePublish(key) with no ActiveStream row for key signals no
\* process, changes no table and schedules no cleanup.
C22_UnmatchedDonePublishIgnored ==
  [][ \A k \in Keys :
        (LegacyDonePublish(k) /\ ~Has(activeStreams, k))
          => UNCHANGED <<activeStreams, activeEncodings, procs, cleanupTimers>> ]_vars

\* C23: the cleanup for key k deletes only files produced for k: every file
\* it removes from the streams directory belongs to stream key k.
C23_CleanupDeletesOwnFilesOnly ==
  [][ \A k \in Keys : CleanupFire(k) => \A f \in files \ files' : f.key = k ]_vars

\* C24: once the failure of a spawn made by postPublish(key) has been
\* reported, and key has not been published again since, there is no
\* ActiveStream row and no supervisor process entry for key.
C24_FailedSpawnLeavesNothing ==
  [][ \A pid \in DOMAIN procs :
        (SpawnError(pid) /\ pid = LatestFor(procs[pid].key))
          => ( /\ ~Has(activeStreams', procs[pid].key)
               /\ ~Has(activeProcesses', procs[pid].key) ) ]_vars

\* C25: after a postPublish(key) a room for key exists, also when nobody
\* has joined key yet.
C25_RoomAfterPublish ==
  [][ \A k \in Keys, ip \in Ips : PostPublish(k, ip) => Has(rooms', k) ]_vars

\* The connected participants of a room.
Members(room) == {c \in DOMAIN room.participants : connOpen[c]}

\* C26: on join the joiner alone receives room-state, whose polls are
\* exactly the room's active polls, whose participants are exactly the
\* room's participants (the joiner among them) and whose settings are the
\* room's codec policy, all as of the end of the join; participant-joined
\* goes to the other members and not to the joiner.
C26_RoomStateConsistent ==
  [][ \A c \in Conns, k \in Keys, r \in Roles :
        JoinRoom(c, k, r)
          => /\ Len(out') = 2
             /\ out'[1].ev = "room-state" /\ out'[1].to = "sender"
             /\ {out'[1].payload.polls[i] : i \in 1..Len(out'[1].payload.polls)}
                  = {id \in DOMAIN polls' :
                       /\ FindPoll(rooms'[k], id) # 0
                       /\ polls'[id].status = "active"}
             /\ out'[1].payload.participants = rooms'[k].participants
             /\ c \in DOMAIN out'[1].payload.participants
             /\ out'[1].payload.streamSettings = rooms'[k].h265Enabled
             /\ out'[2].ev = "participant-joined"
             /\ \A event \in {out'[2]}, room \in {rooms'[k]} :
                  Recipients(event, c)' = Members(room)' \ {c}
    ]_vars

\* C26 witness: a connection joined a room that has another participant
\* and a closed poll, and the snapshot it received lists no poll.
C26_Witness ==
  /\ last.op = "join-room"
  /\ Has(rooms, last.key)
  /\ Cardinality(Members(rooms[last.key])) = 2
  /\ \E id \in DOMAIN polls : FindPoll(rooms[last.key], id) # 0 /\ polls[id].status = "closed"
  /\ out[1].payload.polls = <<>>

\* C30: an accepted chat message is appended at the end of the room's log
\* and broadcast to every member of the room, the sender included; the
\* messages of a room-state snapshot are the last min(50, n) messages of the
\* log, in the log's order.
C30_ChatOrderAndSnapshot ==
  [][ /\ \A c \in Conns :
           (ChatMessage(c) /\ InRoom(c))
             => /\ Len(out') = 1 /\ out'[1].ev = "chat-message"
                /\ rooms'[sockData[c].streamKey].messages
                     = Append(rooms[sockData[c].streamKey].messages, out'[1].payload)
                /\ \A event \in {out'[1]}, room \in {rooms'[sockData[c].streamKey]} :
                     /\ c \in Recipients(event, c)'
                     /\ Members(room)' \subseteq Recipients(event, c)'
      /\ \A c \in Conns, k \in Keys, r \in Roles :
           JoinRoom(c, k, r)
             => LET log == rooms'[k].messages
                    snap == out'[1].payload.messages
                    m == IF Len(log) < 50 THEN Len(log) ELSE 50
                IN /\ Len(snap) = m
                   /\ \A i \in 1..m : snap[i] = log[Len(log) - m + i]
    ]_vars

\* C30 witness: a connection joined a room whose log holds 51 messages and
\* received the 50 messages from the second to the last.
C30_Witness ==
  /\ last.op = "join-room"
  /\ Has(rooms, last.key)
  /\ Len(rooms[last.key].messages) = 51
  /\ Len(out[1].payload.messages) = 50
  /\ out[1].payload.messages[1] = rooms[last.key].messages[2]

\* A queue with every entry of connection c taken out, the rest in order.
RECURSIVE Without(_, _)
Without(q, c) ==
  IF q = <<>> THEN <<>>
  ELSE IF Head(q) = c THEN Without(Tail(q), c) ELSE <<Head(q)>> \o Without(Tail(q), c)

C28_RaiseThenLowerRestores ==
  [][ \A c \in Conns :
        ( /\ LowerHand(c) /\ CanLower(c)
          /\ last = Cmd("raise-hand", c, sockData[c].streamKey) /\ out # <<>> )
          => LET q == rooms[sockData[c].streamKey].handRaises
             IN /\ rooms'[sockData[c].streamKey].handRaises = SubSeq(q, 1, Len(q) - 1)
                /\ ~rooms'[sockData[c].streamKey].participants[c].handRaised
    ]_vars

\* C29: when a connection whose hand is raised disconnects, hand-lowered is
\* emitted along with participant-left.
C29_DisconnectLowersHand ==
  [][ \A c \in Conns :
        (Disconnect(c) /\ CanLower(c))
          => \E i \in 1..Len(out') : out'[i].ev = "hand-lowered" ]_vars

\* C31: the stored chat log of every room is bounded by the retention count
\* (the 50 messages that room-state carries).
C31_ChatLogBounded ==
  \A k \in DOMAIN rooms : Len(rooms[k].messages) <= SnapshotSize

\* C36: the exit of a transcoder process never removes or replaces the
\* supervisor's entry of another process: every entry that holds a different
\* pid is still there, unchanged, after the exit.
C36_ExitKeepsNewerEntry ==
  [][ \A pid \in DOMAIN procs :
        ProcExit(pid)
          => \A k \in DOMAIN activeProcesses :
               activeProcesses[k] # pid
                 => Has(activeProcesses', k) /\ activeProcesses'[k] = activeProcesses[k]
    ]_vars

\* C37: the delayed master-playlist write of a publish runs only while the
\* ActiveStream row of that very publish exists.
C37_PlaylistOnlyWhileActive ==
  [][ \A timer \in playlistTimers :
        (PlaylistTimerFire(timer) /\ files' # files)
          => Has(activeStreams, timer.key)
             /\ activeStreams[timer.key].startTime = timer.pid
    ]_vars

\* C38: when the auto-close timer of a poll broadcasts poll-closed and some
\* connection receives it, the room registered under the key of the
\* broadcast holds that poll in its poll list.
C38_PollClosedOnlyToOwnRoom ==
  [][ \A id \in DOMAIN polls :
        ( /\ PollTimerFire(id)
          /\ Recipients(Ev("poll-closed", "room", polls[id].room, id), 0) # {} )
          => /\ Has(rooms, polls[id].room)
             /\ FindPoll(rooms[polls[id].room], id) # 0
    ]_vars

\* C39: a connection that has disconnected is in no room's participants map
\* and in no room's hand-raise queue.
C39_DisconnectedIsGone ==
  \A c \in Conns :
    ~connOpen[c]
      => \A k \in DOMAIN rooms :
           /\ ~Has(rooms[k].participants, c)
           /\ \A i \in 1..Len(rooms[k].handRaises) : rooms[k].handRaises[i] # c

\* C40: every room of the registry has at least one participant, and the
\* subscriber count reported for an active stream is never negative.
C40_RoomsNeverEmpty ==
  /\ \A k \in DOMAIN rooms : Cardinality(DOMAIN rooms[k].participants) >= 1
  /\ \A k \in ApiLiveKeys : Subscribers(k) >= 0

\* C40 witness: a disconnect left one participant in the room of an active
\* stream, which is reported with zero subscribers.
C40_Witness ==
  /\ last.op = "disconnect"
  /\ Has(rooms, last.key)
  /\ last.key \in ApiLiveKeys
  /\ Cardinality(DOMAIN rooms[last.key].participants) = 1
  /\ Subscribers(last.key) = 0

\* C32: a command with a malformed payload is dropped: the rooms are
\* unchanged, no event is emitted, and no connection, the sender's included,
\* is closed.
C32_MalformedIsDropped ==
  [][ \A c \in Conns, op \in MalformedOps :
        MalformedPayload(c, op)
          => /\ rooms' = rooms
             /\ out' = <<>>
             /\ connOpen' = connOpen
    ]_vars

\* C33: typing state does not leak across a connection close: once a
\* remaining client has handled every event sent to it, it has no
\* disconnected user recorded as typing.
C33_TypingDoesNotLeak ==
  \A c \in Conns, d \in DOMAIN inbox :
    (~connOpen[c] /\ connOpen[d] /\ inbox[d] = <<>>) => c \notin typingUsers[d]

QueueBound == 3    \* capacity of a send queue the claim is checked for

\* C35: the send queue of a connection is bounded: a connection that is
\* still open never has more than the bound waiting for it (one that
\* exceeds the bound is dropped).
C35_SendQueueBounded ==
  \A c \in DOMAIN inbox : connOpen[c] => Len(inbox[c]) <= QueueBound

====
